---- MODULE Spec2Model ----
(***************************************************************************)
(* A model of the stub build of the `users` crate: src/src/base.rs (the    *)
(* entity types and the identity lookups), src/src/switch.rs (the          *)
(* credential switches and the SwitchUserGuard) and src/src/lib.rs.        *)
(*                                                                         *)
(* The library keeps no state of its own.  The state below is that of a    *)
(* client driving the library (the calls it made, what they returned, the  *)
(* guards and entities it holds) and of the host around it (the records    *)
(* the host's identity database holds, the changes the host's credential   *)
(* calls would refuse).  Every library function is an operator that        *)
(* returns [ret, calls]: the value the function returns and the foreign    *)
(* calls its body makes, in order.                                         *)
(***************************************************************************)
EXTENDS Integers, Sequences, FiniteSets, TLC

VARIABLES
    rejects,    \* host: the kinds of change setreuid/setregid would refuse now
    calm,       \* host: setreuid/setregid have refused nothing so far
    guards,     \* client: the SwitchUserGuards obtained, in order of acquisition
    asked,      \* client: the <<uid, gid>> last asked of switch_user_group
    seen,       \* client: what was observed around each guard's switch and drop
    lifo,       \* client: every drop so far released the innermost live guard
    last,       \* client: the last switch-module call and what was observed
    db,         \* host: the records the identity database holds
    first,      \* client: the last lookup made
    second,     \* client: the same lookup made again
    heap        \* client: the User/Group values constructed, and their clones

vars == <<rejects, calm, guards, asked, seen, lifo, last, db, first, second, heap>>

\* ---------------------------------------------------------------- bounds

MaxId == 1
MaxNameLen == 2
MaxGuards == 2
MaxRecords == 1
MaxEntities == 1

\* ---------------------------------------------------------------- values

\* uid_t and gid_t are u32; no arithmetic is done on them.
Ids == 0..MaxId

\* Bytes of a name: NUL and the letter 'a'.
NameBytes == {0, 97}

Names == UNION {[1..n -> NameBytes] : n \in 0..MaxNameLen}

HasNul(s) == \E i \in 1..Len(s) : s[i] = 0

\* Option<T>: None is the empty sequence, Some(x) the sequence <<x>>.
None == <<>>

Some(x) == <<x>>

\* io::Result<()>
Ok == "Ok"

Err == "Err"

Steps == {"uid", "gid"}

\* ---------------------------------------------------------------- base.rs

\* os::UserExtras and os::GroupExtras are the unit type.
UserExtras == <<>>

GroupExtras == <<>>

\* A constructor that stores its two numeric arguments in each other's field.
User_new_swapped(uid, name, primary_group) ==
    [ret |-> [uid |-> primary_group, primary_group |-> uid,
              extras |-> UserExtras, name_arc |-> name],
     calls |-> <<>>]

User_new(uid, name, primary_group) ==
    [ret |-> [uid |-> uid, primary_group |-> primary_group,
              extras |-> UserExtras, name_arc |-> name],
     calls |-> <<>>]

User_uid(u) == u.uid

User_name(u) == u.name_arc

User_primary_group_id(u) == u.primary_group

\* #[derive(Clone)]: every field is cloned; the Arc clone shares the same bytes.
User_clone(u) ==
    [uid |-> u.uid, primary_group |-> u.primary_group,
     extras |-> u.extras, name_arc |-> u.name_arc]

Group_new(gid, name) ==
    [ret |-> [gid |-> gid, extras |-> GroupExtras, name_arc |-> name],
     calls |-> <<>>]

Group_gid(g) == g.gid

Group_name(g) == g.name_arc

Group_clone(g) == [gid |-> g.gid, extras |-> g.extras, name_arc |-> g.name_arc]

\* A C string ends at its first NUL byte.
CStr(s) ==
    LET nul == {i \in 1..Len(s) : s[i] = 0}
    IN  IF nul = {} THEN s
        ELSE SubSeq(s, 1, (CHOOSE i \in nul : \A j \in nul : i <= j) - 1)

\* A lookup that asks the host's database for the user with this uid.
get_user_by_uid_host(uid) ==
    LET hit == {r \in db : r.kind = "user" /\ r.id = uid}
    IN  [ret |-> IF hit = {} THEN None
                 ELSE LET r == CHOOSE r \in hit : TRUE
                      IN  Some(User_new(r.id, r.name, r.primary_group).ret),
         calls |-> << <<"getpwuid", uid>> >>]

get_user_by_uid(uid) == [ret |-> None, calls |-> <<>>]

\* A lookup that hands the name to the host as a C string, cut at its first NUL.
get_user_by_name_cstr(username) ==
    LET hit == {r \in db : r.kind = "user" /\ r.name = CStr(username)}
    IN  [ret |-> IF hit = {} THEN None
                 ELSE LET r == CHOOSE r \in hit : TRUE
                      IN  Some(User_new(r.id, r.name, r.primary_group).ret),
         calls |-> << <<"getpwnam", CStr(username)>> >>]

get_user_by_name(username) == [ret |-> None, calls |-> <<>>]

\* A lookup that asks the host's database for the group with this gid.
get_group_by_gid_host(gid) ==
    LET hit == {r \in db : r.kind = "group" /\ r.id = gid}
    IN  [ret |-> IF hit = {} THEN None
                 ELSE LET r == CHOOSE r \in hit : TRUE
                      IN  Some(Group_new(r.id, r.name).ret),
         calls |-> << <<"getgrgid", gid>> >>]

get_group_by_gid(gid) == [ret |-> None, calls |-> <<>>]

get_group_by_name(groupname) == [ret |-> None, calls |-> <<>>]

get_current_uid == 0

\* A getter that reports the uid most recently asked of switch_user_group.
get_effective_uid_requested == IF asked = <<>> THEN 0 ELSE asked[1]

get_effective_uid == 0

get_current_gid == 0

get_effective_gid == 0

\* The four credentials of the process, as the library reports them.
Creds ==
    [ruid |-> get_current_uid, euid |-> get_effective_uid,
     rgid |-> get_current_gid, egid |-> get_effective_gid]

Eff == <<get_effective_uid, get_effective_gid>>

Zero == [ruid |-> 0, euid |-> 0, rgid |-> 0, egid |-> 0]

\* ---------------------------------------------------------------- switch.rs

\* extern fn setreuid / setregid: the host refuses the kinds of change in `rejects`.
Refused(kind) == kind \in rejects

Idle == [op |-> "idle"]

set_current_uid(uid) == [ret |-> Ok, calls |-> <<>>]

set_current_gid(gid) == [ret |-> Ok, calls |-> <<>>]

\* An operation that makes the host call and passes its refusal on.
set_effective_uid_checked(uid) ==
    [ret |-> IF Refused("uid") THEN Err ELSE Ok, calls |-> << <<"euid", uid>> >>]

set_effective_uid(uid) == [ret |-> Ok, calls |-> <<>>]

set_effective_gid(gid) == [ret |-> Ok, calls |-> <<>>]

set_both_uid(ruid, euid) == [ret |-> Ok, calls |-> <<>>]

\* An operation that makes the host call and passes its refusal on.
set_both_gid_checked(rgid, egid) ==
    [ret |-> IF Refused("gid") THEN Err ELSE Ok,
     calls |-> << <<"rgid", rgid>>, <<"egid", egid>> >>]

set_both_gid(rgid, egid) == [ret |-> Ok, calls |-> <<>>]

\* pub struct SwitchUserGuard {}: no fields.
SwitchUserGuard == [type |-> "SwitchUserGuard"]

\* A switch that fails, without a guard, when the host refuses either step.
switch_user_group_checked(uid, gid) ==
    IF Refused("gid") \/ Refused("uid")
    THEN [ret |-> Err, guard |-> None, calls |-> <<>>]
    ELSE [ret |-> Ok, guard |-> Some(SwitchUserGuard), calls |-> <<>>]

\* A switch that sets the effective gid and then the effective uid.
switch_user_group_applying(uid, gid) ==
    [ret |-> Ok, guard |-> Some(SwitchUserGuard),
     calls |-> << <<"egid", gid>>, <<"euid", uid>> >>]

switch_user_group(uid, gid) ==
    [ret |-> Ok, guard |-> Some(SwitchUserGuard), calls |-> <<>>]

\* A drop that re-applies the effective ids in force when the guard was taken.
SwitchUserGuard_drop_restoring(g) ==
    [calls |-> << <<"euid", seen[g].snap[1][1]>>, <<"egid", seen[g].snap[1][2]>> >>]

\* SwitchUserGuard has no Drop impl and no fields: dropping guard g does nothing.
SwitchUserGuard_drop(g) == [calls |-> <<>>]

\* ---------------------------------------------------------------- the client of switch.rs

Unseen ==
    [snap |-> None, during |-> None, after |-> None,
     switchCalls |-> <<>>, dropCalls |-> <<>>]

Live == {g \in 1..Len(guards) : guards[g].status = "live"}

\* The innermost live guard, 0 when none is live.
Innermost == IF Live = {} THEN 0 ELSE CHOOSE g \in Live : \A h \in Live : h <= g

\* What the client notes of one call: the credentials are read before and after it.
Called(op, args, r, post) ==
    [op |-> op, args |-> args, ret |-> r.ret, calls |-> r.calls,
     pre |-> Creds, post |-> post]

SetCurrentUid ==
    \E uid \in Ids :
        /\ UNCHANGED <<rejects, calm, guards, asked, seen, lifo, db, first, second, heap>>
        /\ last' = Called("set_current_uid", <<uid>>, set_current_uid(uid), Creds')

SetCurrentGid ==
    \E gid \in Ids :
        /\ UNCHANGED <<rejects, calm, guards, asked, seen, lifo, db, first, second, heap>>
        /\ last' = Called("set_current_gid", <<gid>>, set_current_gid(gid), Creds')

SetEffectiveUid ==
    \E uid \in Ids :
        /\ UNCHANGED <<rejects, calm, guards, asked, seen, lifo, db, first, second, heap>>
        /\ last' = Called("set_effective_uid", <<uid>>, set_effective_uid(uid), Creds')

SetEffectiveGid ==
    \E gid \in Ids :
        /\ UNCHANGED <<rejects, calm, guards, asked, seen, lifo, db, first, second, heap>>
        /\ last' = Called("set_effective_gid", <<gid>>, set_effective_gid(gid), Creds')

SetBothUid ==
    \E ruid \in Ids, euid \in Ids :
        /\ UNCHANGED <<rejects, calm, guards, asked, seen, lifo, db, first, second, heap>>
        /\ last' = Called("set_both_uid", <<ruid, euid>>, set_both_uid(ruid, euid), Creds')

SetBothGid ==
    \E rgid \in Ids, egid \in Ids :
        /\ UNCHANGED <<rejects, calm, guards, asked, seen, lifo, db, first, second, heap>>
        /\ last' = Called("set_both_gid", <<rgid, egid>>, set_both_gid(rgid, egid), Creds')

\* let guard = switch_user_group(uid, gid)?;
SwitchUserGroup ==
    \E uid \in Ids, gid \in Ids :
        LET r == switch_user_group(uid, gid)
            g == Len(guards) + 1
        IN  /\ Len(guards) < MaxGuards
            /\ guards' = IF r.ret = Ok
                         THEN Append(guards, [status |-> "live", parent |-> Innermost])
                         ELSE guards
            /\ asked' = <<uid, gid>>
            /\ seen' = IF r.ret = Ok
                       THEN [seen EXCEPT ![g] =
                                [snap |-> Some(Eff), during |-> Some(Eff'), after |-> None,
                                 switchCalls |-> r.calls, dropCalls |-> <<>>]]
                       ELSE seen
            /\ last' = [op |-> "switch_user_group", args |-> <<uid, gid>>, ret |-> r.ret,
                        guard |-> r.guard, calls |-> r.calls,
                        pre |-> Creds, post |-> Creds']
            /\ UNCHANGED <<rejects, calm, lifo, db, first, second, heap>>

\* drop(guard): a guard is moved into drop, so it is dropped once.
DropGuard ==
    \E g \in Live :
        LET r == SwitchUserGuard_drop(g)
        IN  /\ UNCHANGED <<rejects, calm, asked, db, first, second, heap>>
            /\ guards' = [guards EXCEPT ![g].status = "spent"]
            /\ seen' = [seen EXCEPT ![g].after = Some(Eff'), ![g].dropCalls = r.calls]
            /\ lifo' = (lifo /\ g = Innermost)
            /\ last' = [op |-> "drop", args |-> <<g>>, ret |-> Ok, calls |-> r.calls,
                        pre |-> Creds, post |-> Creds']

\* The host starts or stops refusing a kind of change (privilege lost or regained).
HostChanges ==
    \E r \in SUBSET Steps :
        /\ r # rejects
        /\ rejects' = r
        /\ calm' = FALSE
        /\ last' = Idle
        /\ UNCHANGED <<guards, asked, seen, lifo, db, first, second, heap>>

Init ==
    /\ rejects = {}
    /\ calm = TRUE
    /\ guards = <<>>
    /\ asked = <<>>
    /\ seen = [g \in 1..MaxGuards |-> Unseen]
    /\ lifo = TRUE
    /\ last = Idle
    /\ db = {}
    /\ first = Idle
    /\ second = Idle
    /\ heap = [s \in 1..MaxEntities |-> [orig |-> None, clone |-> None, made |-> None]]

Next ==
    \/ SetCurrentUid
    \/ SetCurrentGid
    \/ SetEffectiveUid
    \/ SetEffectiveGid
    \/ SetBothUid
    \/ SetBothGid
    \/ SwitchUserGroup
    \/ DropGuard
    \/ HostChanges

Spec == Init /\ [][Next]_vars

\* ---------------------------------------------------------------- the client of the lookups

\* Names the host's database can hold: C strings, not empty.
HostNames == {n \in Names : n # <<>> /\ ~HasNul(n)}

Users(d) == {r \in d : r.kind = "user"}

Groups(d) == {r \in d : r.kind = "group"}

\* The host gains an account.
HostAddsUser ==
    \E uid \in Ids, name \in HostNames, gid \in Ids :
        /\ Cardinality(db) < MaxRecords
        /\ \A r \in Users(db) : r.id # uid /\ r.name # name
        /\ db' = db \cup {[kind |-> "user", id |-> uid, name |-> name,
                           primary_group |-> gid]}
        /\ first' = Idle
        /\ second' = Idle
        /\ UNCHANGED <<rejects, calm, guards, asked, seen, lifo, last, heap>>

\* The host gains a group.
HostAddsGroup ==
    \E gid \in Ids, name \in HostNames :
        /\ Cardinality(db) < MaxRecords
        /\ \A r \in Groups(db) : r.id # gid /\ r.name # name
        /\ db' = db \cup {[kind |-> "group", id |-> gid, name |-> name]}
        /\ first' = Idle
        /\ second' = Idle
        /\ UNCHANGED <<rejects, calm, guards, asked, seen, lifo, last, heap>>

Looked(op, key, r) == [op |-> op, key |-> key, ret |-> r.ret, calls |-> r.calls]

GetUserByUid ==
    \E uid \in Ids :
        /\ first' = Looked("get_user_by_uid", uid, get_user_by_uid(uid))
        /\ second' = Idle
        /\ UNCHANGED <<rejects, calm, guards, asked, seen, lifo, last, db, heap>>

GetUserByName ==
    \E name \in Names :
        /\ first' = Looked("get_user_by_name", name, get_user_by_name(name))
        /\ second' = Idle
        /\ UNCHANGED <<rejects, calm, guards, asked, seen, lifo, last, db, heap>>

GetGroupByGid ==
    \E gid \in Ids :
        /\ first' = Looked("get_group_by_gid", gid, get_group_by_gid(gid))
        /\ second' = Idle
        /\ UNCHANGED <<rejects, calm, guards, asked, seen, lifo, last, db, heap>>

GetGroupByName ==
    \E name \in Names :
        /\ first' = Looked("get_group_by_name", name, get_group_by_name(name))
        /\ second' = Idle
        /\ UNCHANGED <<rejects, calm, guards, asked, seen, lifo, last, db, heap>>

Lookups == {"get_user_by_uid", "get_user_by_name", "get_group_by_gid", "get_group_by_name"}

ByName == {"get_user_by_name", "get_group_by_name"}

\* The same lookup, with the same key, a second time.
LookupAgain ==
    /\ first.op \in Lookups
    /\ second = Idle
    /\ LET r == CASE first.op = "get_user_by_uid" -> get_user_by_uid(first.key)
                  [] first.op = "get_user_by_name" -> get_user_by_name(first.key)
                  [] first.op = "get_group_by_gid" -> get_group_by_gid(first.key)
                  [] first.op = "get_group_by_name" -> get_group_by_name(first.key)
       IN  second' = Looked(first.op, first.key, r)
    /\ UNCHANGED <<rejects, calm, guards, asked, seen, lifo, last, db, first, heap>>

\* get_user_by_name(name), then get_user_by_uid with the uid of the user it returned
\* (byUid is None when no user was returned, so that there is no uid to look up).
RoundTrip ==
    \E name \in Names :
        LET r == get_user_by_name(name)
        IN  /\ first' = [op |-> "round_trip", key |-> name, ret |-> r.ret, calls |-> r.calls,
                         byUid |-> IF r.ret = None THEN None
                                   ELSE Some(get_user_by_uid(User_uid(r.ret[1])).ret)]
            /\ second' = Idle
            /\ UNCHANGED <<rejects, calm, guards, asked, seen, lifo, last, db, heap>>

NextLookup ==
    \/ HostAddsUser
    \/ HostAddsGroup
    \/ GetUserByUid
    \/ GetUserByName
    \/ GetGroupByGid
    \/ GetGroupByName
    \/ LookupAgain
    \/ RoundTrip

SpecLookup == Init /\ [][NextLookup]_vars

\* ---------------------------------------------------------------- the client of User and Group

\* let user = User::new(uid, name, primary_group);
NewUser ==
    \E s \in 1..MaxEntities, uid \in Ids, name \in Names, gid \in Ids :
        LET r == User_new(uid, name, gid)
        IN  /\ heap[s].made = None
            /\ heap' = [heap EXCEPT ![s] =
                          [orig |-> Some(r.ret), clone |-> None,
                           made |-> Some([kind |-> "user", id |-> uid, name |-> name,
                                          primary_group |-> gid, calls |-> r.calls])]]
            /\ UNCHANGED <<rejects, calm, guards, asked, seen, lifo, last, db, first, second>>

\* let group = Group::new(gid, name);
NewGroup ==
    \E s \in 1..MaxEntities, gid \in Ids, name \in Names :
        LET r == Group_new(gid, name)
        IN  /\ heap[s].made = None
            /\ heap' = [heap EXCEPT ![s] =
                          [orig |-> Some(r.ret), clone |-> None,
                           made |-> Some([kind |-> "group", id |-> gid, name |-> name,
                                          calls |-> r.calls])]]
            /\ UNCHANGED <<rejects, calm, guards, asked, seen, lifo, last, db, first, second>>

\* let copy = value.clone();
CloneEntity ==
    \E s \in 1..MaxEntities :
        /\ heap[s].orig # None
        /\ heap[s].clone = None
        /\ heap' = [heap EXCEPT ![s].clone =
                      Some(IF heap[s].made[1].kind = "user"
                           THEN User_clone(heap[s].orig[1])
                           ELSE Group_clone(heap[s].orig[1]))]
        /\ UNCHANGED <<rejects, calm, guards, asked, seen, lifo, last, db, first, second>>

\* drop(value): the clone, if any, lives on.
DropOriginal ==
    \E s \in 1..MaxEntities :
        /\ heap[s].orig # None
        /\ heap' = [heap EXCEPT ![s].orig = None]
        /\ UNCHANGED <<rejects, calm, guards, asked, seen, lifo, last, db, first, second>>

NextEntity ==
    \/ NewUser
    \/ NewGroup
    \/ CloneEntity
    \/ DropOriginal

SpecEntity == Init /\ [][NextEntity]_vars

\* ---------------------------------------------------------------- the claims

Spent == {g \in 1..Len(guards) : guards[g].status = "spent"}

Elementary == {"set_current_uid", "set_current_gid", "set_effective_uid", "set_effective_gid"}

Setters == Elementary \cup {"set_both_uid", "set_both_gid"}

\* The kind of change an operation asks of the host.
KindOf(op) == IF op \in {"set_current_uid", "set_effective_uid", "set_both_uid"}
              THEN "uid" ELSE "gid"

\* How many times the drop of guard g re-applied a uid.
Restores(g) ==
    Cardinality({i \in 1..Len(seen[g].dropCalls) : seen[g].dropCalls[i][1] = "euid"})

\* C1 as stated: while the host refuses nothing, switch_user_group(uid1, gid1)
\* followed by the drop of its guard leaves the effective ids at (uid0, gid0), the
\* switch having changed the group and then the user, and the drop the user and then
\* the group.
C1_SwitchRestoreOrdered ==
    calm => \A g \in Spent :
        /\ seen[g].after = seen[g].snap
        /\ Len(seen[g].switchCalls) = 2
        /\ seen[g].switchCalls[1][1] = "egid"
        /\ seen[g].switchCalls[2][1] = "euid"
        /\ Len(seen[g].dropCalls) = 2
        /\ seen[g].dropCalls[1][1] = "euid"
        /\ seen[g].dropCalls[2][1] = "egid"

\* C1 as amended: while the host refuses nothing, switch_user_group(uid1, gid1)
\* followed by the drop of its guard leaves the effective ids at (uid0, gid0); neither
\* the switch nor the drop changes a credential, so the effective ids are (uid0, gid0)
\* between the two as well and there is no order of changes.
C1_SwitchRestoreUnchanged ==
    calm => \A g \in Spent :
        /\ seen[g].after = seen[g].snap
        /\ seen[g].during = seen[g].snap
        /\ seen[g].switchCalls = <<>>
        /\ seen[g].dropCalls = <<>>

\* A guard for a target other than the effective ids has been taken and dropped.
C1_Witness ==
    /\ calm
    /\ Len(guards) = 1
    /\ Spent = {1}
    /\ asked[1] # seen[1].snap[1][1]
    /\ asked[2] # seen[1].snap[1][2]

\* C2 as stated: when the host refuses the gid step or the uid step,
\* switch_user_group returns an error and no guard, and the effective uid and gid are
\* what they were before the call.
C2_FailureAtomicity ==
    (last.op = "switch_user_group" /\ rejects # {}) =>
        /\ last.ret = Err
        /\ last.guard = None
        /\ last.post.euid = last.pre.euid
        /\ last.post.egid = last.pre.egid

\* C2 as amended: when the host would refuse the gid step or the uid step,
\* switch_user_group still returns Ok with a guard (it makes no host call), and the
\* effective uid and gid are what they were before the call.
C2_SwitchIgnoresRefusal ==
    (last.op = "switch_user_group" /\ rejects # {}) =>
        /\ last.ret = Ok
        /\ last.guard = Some(SwitchUserGuard)
        /\ last.calls = <<>>
        /\ last.post.euid = last.pre.euid
        /\ last.post.egid = last.pre.egid

\* switch_user_group was called for another identity while the host refuses the gid step.
C2_Witness ==
    /\ last.op = "switch_user_group"
    /\ rejects = {"gid"}
    /\ last.args[1] # last.pre.euid
    /\ last.args[2] # last.pre.egid

\* C3 as stated: an elementary operation returns an error whenever the host refuses
\* its change, and the four credentials are then what they were before the call.
C3_ElementaryFails ==
    (last.op \in Elementary /\ Refused(KindOf(last.op))) =>
        /\ last.ret = Err
        /\ last.post = last.pre

\* C3 as amended: an elementary operation returns Ok even when the host would refuse
\* its change (it makes no host call), and the four credentials are then what they
\* were before the call.
C3_ElementaryIgnoresRefusal ==
    (last.op \in Elementary /\ Refused(KindOf(last.op))) =>
        /\ last.ret = Ok
        /\ last.calls = <<>>
        /\ last.post = last.pre

\* set_effective_uid was called for another uid while the host refuses uid changes.
C3_Witness ==
    /\ last.op = "set_effective_uid"
    /\ Refused("uid")
    /\ last.args[1] # last.pre.euid

\* C8: every setter, switch and drop returns Ok and makes no host call, a switch
\* yields a guard, and the four getters return 0 before and after every call.
C8_StubIsNoOp ==
    /\ Creds = Zero
    /\ last.op \in Setters \cup {"switch_user_group", "drop"} =>
        /\ last.ret = Ok
        /\ last.calls = <<>>
        /\ last.pre = Zero
        /\ last.post = Zero
    /\ last.op = "switch_user_group" => last.guard = Some(SwitchUserGuard)
    /\ \A g \in 1..Len(guards) :
        /\ seen[g].switchCalls = <<>>
        /\ seen[g].dropCalls = <<>>
        /\ seen[g].snap = Some(<<0, 0>>)
        /\ seen[g].during = Some(<<0, 0>>)
        /\ g \in Spent => seen[g].after = Some(<<0, 0>>)

\* After a switch and a drop, set_both_gid was called for nonzero ids the host refuses.
C8_Witness ==
    /\ last.op = "set_both_gid"
    /\ last.args = <<1, 1>>
    /\ Refused("gid")
    /\ Spent # {}
    /\ asked = <<1, 1>>

\* C9 as stated: the drop of a guard re-applies its snapshot exactly once, and no
\* guard that is still held has re-applied anything.
C9_RestoresExactlyOnce ==
    \A g \in 1..Len(guards) : Restores(g) = (IF g \in Spent THEN 1 ELSE 0)

C9_NoRestore == \A g \in 1..Len(guards) : Restores(g) = 0

C9_StaysSpent ==
    \A g \in Spent : guards'[g].status = "spent" /\ seen'[g] = seen[g]

\* C9 as amended: a guard restores at most once, in fact never (it holds no snapshot
\* and its drop re-applies nothing); once dropped a guard stays spent and nothing
\* recorded of it changes.
C9_RestoresNever == []C9_NoRestore /\ [][C9_StaysSpent]_vars

\* A guard for a nonzero target was dropped, and a later guard is still held.
C9_Witness ==
    /\ 1 \in Spent
    /\ 2 \in Live
    /\ seen[1].after # None
    /\ asked # <<0, 0>>

C4_NulNameNotFound ==
    /\ (first.op \in ByName \cup {"round_trip"} /\ HasNul(first.key)) => first.ret = None
    /\ (second.op \in ByName /\ HasNul(second.key)) => second.ret = None

\* A name with a NUL byte was looked up while the host holds a record of that kind
\* under the name's prefix before the NUL.
C4_Witness ==
    /\ first.op \in ByName
    /\ HasNul(first.key)
    /\ \E r \in db :
        /\ r.name = CStr(first.key)
        /\ r.kind = (IF first.op = "get_user_by_name" THEN "user" ELSE "group")

\* The records of the host a lookup names.
Named(l) ==
    {r \in db :
        /\ r.kind = (IF l.op \in {"get_user_by_uid", "get_user_by_name"}
                     THEN "user" ELSE "group")
        /\ IF l.op \in ByName THEN r.name = l.key ELSE r.id = l.key}

\* C5 as stated: the same lookup made twice for a record the host holds returns an
\* entity both times, equal in id and name, and the second lookup makes no host call.
C5_TwiceSameEntity ==
    (second.op \in Lookups /\ Named(second) # {}) =>
        /\ first.ret # None
        /\ second.ret = first.ret
        /\ second.calls = <<>>

\* C5 as amended: the same lookup made twice for a record the host holds returns the
\* same result both times, which is None and not an entity, and neither lookup makes
\* a host call.
C5_TwiceSameNone ==
    (second.op \in Lookups /\ Named(second) # {}) =>
        /\ first.ret = None
        /\ second.ret = first.ret
        /\ first.calls = <<>>
        /\ second.calls = <<>>

\* A group the host holds was looked up twice by its gid.
C5_Witness ==
    /\ second.op = "get_group_by_gid"
    /\ Named(second) # {}

\* C6 as stated: for a user record the host holds, get_user_by_name(name) returns a
\* user, and get_user_by_uid of that user's uid returns a user equal to it.
C6_RoundTrip ==
    (first.op = "round_trip" /\ \E r \in Users(db) : r.name = first.key) =>
        /\ first.ret # None
        /\ first.byUid = Some(first.ret)

\* C6 as amended: for a user record the host holds, get_user_by_name(name) returns
\* None, so that no uid is returned to look up; get_user_by_uid of the record's uid
\* returns None as well.
C6_RoundTripNone ==
    /\ (first.op = "round_trip" /\ \E r \in Users(db) : r.name = first.key) =>
        /\ first.ret = None
        /\ first.byUid = None
    /\ (first.op = "get_user_by_uid" /\ \E r \in Users(db) : r.id = first.key) =>
        first.ret = None

\* The round trip was made for the name of a user the host holds.
C6_Witness ==
    /\ first.op = "round_trip"
    /\ \E r \in Users(db) : r.name = first.key /\ r.id # r.primary_group

\* The accessors of value e return what the constructor was given.
Matches(e, m) ==
    IF m.kind = "user"
    THEN /\ User_uid(e) = m.id
         /\ User_name(e) = m.name
         /\ User_primary_group_id(e) = m.primary_group
    ELSE /\ Group_gid(e) = m.id
         /\ Group_name(e) = m.name

C7_AsConstructed ==
    \A s \in 1..MaxEntities :
        heap[s].made # None =>
            /\ heap[s].made[1].calls = <<>>
            /\ heap[s].orig # None => Matches(heap[s].orig[1], heap[s].made[1])
            /\ heap[s].clone # None => Matches(heap[s].clone[1], heap[s].made[1])

C7_Unchanged ==
    \A s \in 1..MaxEntities :
        /\ (heap[s].orig # None /\ heap'[s].orig # None) => heap'[s].orig = heap[s].orig
        /\ heap[s].clone # None => heap'[s].clone = heap[s].clone

\* C7: the accessors of a User or Group, and of its clone, return what the
\* constructor was given; the constructor makes no host call; no step changes a value.
C7_EntityImmutable == []C7_AsConstructed /\ [][C7_Unchanged]_vars

\* A user with distinct uid and primary group and a name with a NUL byte was
\* constructed and cloned, and the original dropped.
C7_Witness ==
    \E s \in 1..MaxEntities :
        /\ heap[s].made # None
        /\ heap[s].made[1].kind = "user"
        /\ heap[s].made[1].id # heap[s].made[1].primary_group
        /\ HasNul(heap[s].made[1].name)
        /\ heap[s].orig = None
        /\ heap[s].clone # None

====
